---- MODULE Spec2Model ----
(***************************************************************************)
(* Model of src/index.js: the phone-number normalisers, the SMS sender,    *)
(* the call initiation (voice-AI session, then telephony dial) and the     *)
(* call-status webhook with its tagging side effect.                       *)
(*                                                                         *)
(* JavaScript values are records [t, s]: t is the type ("undefined",       *)
(* "null", "string") and s the string's content, a sequence of tokens.     *)
(* A phone number is a sequence of one-character tokens; other texts use   *)
(* longer tokens for runs of characters that no conversion touches.        *)
(***************************************************************************)
EXTENDS Naturals, Sequences, FiniteSets

VARIABLES raw, dialable, taggingKey, req, crm

vars == <<raw, dialable, taggingKey, req, crm>>

-----------------------------------------------------------------------------
(* JavaScript values *)

Undefined == [t |-> "undefined", s |-> <<>>]

Null == [t |-> "null", s |-> <<>>]

Str(s) == [t |-> "string", s |-> s]

\* A value not yet computed (a local before its assignment).
Unset == [t |-> "unset", s |-> <<>>]

\* !v is false exactly for a non-empty string (among the values modelled).
Truthy(v) == v.t = "string" /\ v.s # <<>>

\* a || b
Or(a, b) == IF Truthy(a) THEN a ELSE b

\* `${v}` and String(v): undefined and null print as their names.
ToString(v) == IF v.t = "string" THEN v.s ELSE <<v.t>>

Digits == {"0", "1", "2", "3", "4", "5", "6", "7", "8", "9"}

IsDigit(c) == c \in Digits

IsSpace(c) == c = " "

RECURSIVE TrimStart(_)
TrimStart(s) ==
    IF s # <<>> /\ IsSpace(Head(s)) THEN TrimStart(Tail(s)) ELSE s

RECURSIVE TrimEnd(_)
TrimEnd(s) ==
    IF s # <<>> /\ IsSpace(s[Len(s)]) THEN TrimEnd(SubSeq(s, 1, Len(s) - 1)) ELSE s

\* String.prototype.trim
Trim(s) == TrimEnd(TrimStart(s))

\* s.replace(/\D/g, '')
StripNonDigits(s) == SelectSeq(s, IsDigit)

\* String.prototype.startsWith
StartsWith(s, p) == Len(s) >= Len(p) /\ SubSeq(s, 1, Len(p)) = p

\* encodeURIComponent on one token: the reserved characters the model uses
\* are escaped, unreserved ones (letters, digits, - _ . ! ~ * ' ( )) are kept.
EncodeToken(c) ==
    CASE c = " " -> "%20"
      [] c = "+" -> "%2B"
      [] c = "&" -> "%26"
      [] c = "%" -> "%25"
      [] c = "u2192" -> "%E2%86%92"
      [] OTHER -> c

\* encodeURIComponent(v): the argument is converted to a string first.
EncodeURIComponent(v) ==
    [i \in 1..Len(ToString(v)) |-> EncodeToken(ToString(v)[i])]

-----------------------------------------------------------------------------
(* Phone normalisation *)

\* formatPhoneNumber with the 10-digit branch lacking the country code.
formatPhoneNumberNoCountryCode(phoneNumber) ==
    IF ~Truthy(phoneNumber) THEN Null
    ELSE LET digits == StripNonDigits(Trim(ToString(phoneNumber)))
         IN  IF StartsWith(digits, <<"6", "3">>) THEN Str(<<"+">> \o digits)
             ELSE IF Len(digits) = 10 THEN Str(<<"+">> \o digits)
             ELSE IF Len(digits) >= 11 /\ StartsWith(digits, <<"1">>)
                  THEN Str(<<"+">> \o digits)
             ELSE Null

\* formatPhoneNumber with the 10-digit branch tested before the 63 prefix.
formatPhoneNumberLengthFirst(phoneNumber) ==
    IF ~Truthy(phoneNumber) THEN Null
    ELSE LET digits == StripNonDigits(Trim(ToString(phoneNumber)))
         IN  IF Len(digits) = 10 THEN Str(<<"+", "1">> \o digits)
             ELSE IF StartsWith(digits, <<"6", "3">>) THEN Str(<<"+">> \o digits)
             ELSE IF Len(digits) >= 11 /\ StartsWith(digits, <<"1">>)
                  THEN Str(<<"+">> \o digits)
             ELSE Null

formatPhoneNumber(phoneNumber) ==
    IF ~Truthy(phoneNumber) THEN Null
    ELSE LET digits == StripNonDigits(Trim(ToString(phoneNumber)))
         IN  IF StartsWith(digits, <<"6", "3">>) THEN Str(<<"+">> \o digits)
             ELSE IF Len(digits) = 10 THEN Str(<<"+", "1">> \o digits)
             ELSE IF Len(digits) >= 11 /\ StartsWith(digits, <<"1">>)
                  THEN Str(<<"+">> \o digits)
             ELSE IF Len(digits) >= 11 /\ StartsWith(digits, <<"6", "3">>)
                  THEN Str(<<"+">> \o digits)
             ELSE Null

formatPhoneNumberForTagging(phoneNumber) ==
    IF ~Truthy(phoneNumber) THEN Null
    ELSE Str(StripNonDigits(Trim(ToString(phoneNumber))))

-----------------------------------------------------------------------------
(* Inputs of the normalisers: digit strings of every length from 0 up to   *)
(* Len(prefix) + MaxPad, with the prefixes the branches test, written      *)
(* plain or with the punctuation callers send.                             *)

MaxPad == 11

PhonePrefixes == {<<>>, <<"1">>, <<"6", "3">>, <<"6">>, <<"0", "9">>, <<"9">>}

PadDigits == {"0", "3", "5"}

RECURSIVE Rep(_, _)
Rep(d, n) == IF n = 0 THEN <<>> ELSE <<d>> \o Rep(d, n - 1)

DigitStrings ==
    {p \o Rep(d, n) : p \in PhonePrefixes, d \in PadDigits, n \in 0..MaxPad}

Styles == {"plain", "plus", "dash", "spaces", "parens"}

\* The ways a caller writes the digits s: 5551234567, +5551234567,
\* 555-1234567, " 5551234567 ", (555) 1234567.
Decorate(s, style) ==
    CASE style = "plain" -> s
      [] style = "plus" -> <<"+">> \o s
      [] style = "dash" ->
            IF Len(s) > 3 THEN SubSeq(s, 1, 3) \o <<"-">> \o SubSeq(s, 4, Len(s))
            ELSE s \o <<"-">>
      [] style = "spaces" -> <<" ">> \o s \o <<" ">>
      [] style = "parens" ->
            IF Len(s) > 3
            THEN <<"(">> \o SubSeq(s, 1, 3) \o <<")", " ">> \o SubSeq(s, 4, Len(s))
            ELSE <<"(">> \o s \o <<")">>

RawInputs ==
    {Undefined, Null} \cup {Str(Decorate(s, st)) : s \in DigitStrings, st \in Styles}

\* A string made of digits only (possibly empty).
IsDigitString(v) == v.t = "string" /\ StripNonDigits(v.s) = v.s

\* What is left of an input once every non-digit is removed.
StrippedDigits(v) == StripNonDigits(ToString(v))

-----------------------------------------------------------------------------
(* The server.  Each slot is one request handler of the event loop: an     *)
(* action runs a handler from one await to the next, so the handlers of    *)
(* the slots interleave at their awaits.  req[h] holds the request         *)
(* (query, body), the handler's locals, the external requests it has       *)
(* issued (out) and its reply (status, resBody).  req.body is the object   *)
(* the body parsers of lines 14-15 leave, {} when nothing was sent.        *)

Slots == {"h1", "h2"}

True == [t |-> "boolean", s |-> <<"true">>]

False == [t |-> "boolean", s |-> <<"false">>]

\* The parameters of a request, in req.query or req.body.
Params(clientName, phoneNumber, userType, recipient, message, CallStatus, To) ==
    [clientName |-> clientName, phoneNumber |-> phoneNumber, userType |-> userType,
     recipient |-> recipient, message |-> message, CallStatus |-> CallStatus, To |-> To]

NoParams ==
    Params(Undefined, Undefined, Undefined, Undefined, Undefined, Undefined, Undefined)

\* The JSON body of a reply; a field that is not sent is undefined.
Json(success, error, message, sid) ==
    [success |-> success, error |-> error, message |-> message, sid |-> sid]

NoBody == Json(Undefined, Undefined, Undefined, Undefined)

\* A request to an external service, as the handler issues it.
External(svc, to, clientName, phoneNumber, tag, text) ==
    [svc |-> svc, to |-> to, clientName |-> clientName, phoneNumber |-> phoneNumber,
     tag |-> tag, text |-> text]

StatusNone == 0

IdleRequest ==
    [pc |-> "idle", ep |-> "none", method |-> "none",
     query |-> NoParams, body |-> NoParams,
     clientName |-> Unset, phoneNumber |-> Unset, userType |-> Unset,
     out |-> <<>>, got |-> <<>>, status |-> StatusNone, resBody |-> NoBody]

\* A request as express hands it to its handler.
Arrived(ep, method, query, body) ==
    [IdleRequest EXCEPT !.ep = ep, !.method = method, !.query = query, !.body = body]

\* res.status(code).json(body), res.json(body), res.sendStatus(code)
Reply(r, code, body) ==
    [r EXCEPT !.pc = "done", !.status = code, !.resBody = body]

\* The handler issues an external request and awaits its result.
Await(r, pc, e) == [r EXCEPT !.pc = pc, !.out = Append(r.out, e)]

\* The awaited external request settles with the result o.
Settle(r, o) == [r EXCEPT !.got = Append(r.got, o)]

InitServer == req = [h \in Slots |-> IdleRequest]

\* A slot takes a new request when it handles none.
Free(h) == req[h].pc = "idle"

(* Results of an external request.  fetch resolves with a response that is *)
(* ok or carries a status and a body text, or rejects; a twilio create     *)
(* resolves with a sid or rejects.                                         *)

Outcome(kind, status, statusText, text) ==
    [kind |-> kind, status |-> status, statusText |-> statusText, text |-> text]

StatusOK == 200

StatusBadRequest == 400

StatusServerError == 500

FetchOutcomes ==
    { Outcome("ok", StatusOK, "OK", <<"wss://join">>),
      Outcome("ok", StatusOK, "OK", <<>>),
      Outcome("status", StatusServerError, "Internal Server Error", <<"upstream-text">>),
      Outcome("status", StatusBadRequest, "Bad Request", <<"bad-text">>),
      Outcome("reject", StatusNone, "", <<"fetch failed">>) }

TwilioOutcomes ==
    { Outcome("ok", StatusOK, "", <<"SID1">>),
      Outcome("reject", StatusNone, "", <<"twilio-error">>) }

-----------------------------------------------------------------------------
(* Request parameters the environment sends. *)

ClientNames == {Undefined, Str(<<"A", " ", "B">>)}

TenDigitNumber == <<"5", "5", "5">> \o Rep("0", 7)

\* A number that formatPhoneNumber accepts, and one it rejects.
ValidPhone == Str(Decorate(TenDigitNumber, "parens"))

InvalidPhone == Str(Decorate(Rep("5", 7), "dash"))

\* A number written with the country code 63.
PhilippinesPhone == Str(<<"+", "6", "3", " ", "9", "1", "7">> \o Rep("0", 7))

RequestPhones == {Undefined, ValidPhone, InvalidPhone, PhilippinesPhone}

UserTypes == {Undefined, Str(<<"VIP">>)}

Messages == {Undefined, Str(<<"hi">>)}

\* The query parameters a status callback carries (as initiateCall embedded
\* them, or as another caller of the webhook writes them) and the To field
\* the provider sends.
CallbackPhones ==
    {Undefined, Str(<<>>), Str(<<"+", "1">> \o TenDigitNumber),
     Str(Decorate(TenDigitNumber, "dash"))}

ToNumbers == {Undefined, Str(<<"+", "1", "6", "6", "6">> \o Rep("0", 7))}

CallStatuses ==
    {Undefined} \cup
    {Str(<<c>>) : c \in {"initiated", "ringing", "answered", "completed", "busy",
                         "no-answer", "failed", "canceled", "queued"}}

-----------------------------------------------------------------------------
(* sendSMS and the two endpoints that call it *)

InvalidFormat == <<"Invalid phone number format">>

\* The error sendSMS rethrows from its catch.
sendSMSError(cause) == <<"SMS send failed: ">> \o cause

\* sendSMS up to its await: throws on a number that does not format,
\* otherwise one client.messages.create.
sendSMSThrows(phoneNumber) == ~Truthy(formatPhoneNumber(phoneNumber))

\* sendSMS sending to the number as given instead of the formatted one.
sendSMSRawNumber(r, phoneNumber, message) ==
    Await([r EXCEPT !.phoneNumber = phoneNumber], "awaitMessage",
          External("twilioMessage", phoneNumber,
                   Undefined, Undefined, Undefined, message))

sendSMS(r, phoneNumber, message) ==
    Await([r EXCEPT !.phoneNumber = phoneNumber], "awaitMessage",
          External("twilioMessage", formatPhoneNumber(phoneNumber),
                   Undefined, Undefined, Undefined, message))

\* The reply of each endpoint to an error thrown by sendSMS.
SmsFailure(r, cause) ==
    IF r.ep = "/api/sms-webhook"
    THEN Reply(r, StatusServerError,
               Json(False, Str(<<"SMS send failed: ">> \o sendSMSError(cause)),
                    Undefined, Undefined))
    ELSE Reply(r, StatusServerError,
               Json(Undefined, Str(<<"Failed to send SMS">>),
                    Str(sendSMSError(cause)), Undefined))

\* The handler of /api/sms-webhook up to its first await.
smsWebhook(r) ==
    LET phoneNumber == Or(Or(Or(r.body.phoneNumber, r.body.recipient),
                             r.query.recipient), r.query.phoneNumber)
        message == Or(r.body.message, r.query.message)
    IN  IF ~Truthy(phoneNumber) \/ ~Truthy(message)
        THEN Reply(r, StatusBadRequest,
                   Json(False, Str(<<"Missing phoneNumber/recipient or message">>),
                        Undefined, Undefined))
        ELSE IF sendSMSThrows(phoneNumber)
        THEN SmsFailure(r, InvalidFormat)
        ELSE sendSMS(r, phoneNumber, message)

SmsWebhook(h) ==
    /\ Free(h)
    /\ \E where \in {"body.phoneNumber", "body.recipient", "query.recipient",
                     "query.phoneNumber"},
          phone \in RequestPhones, msg \in Messages :
        LET inBody == where \in {"body.phoneNumber", "body.recipient"}
            given == [NoParams EXCEPT
                        !.phoneNumber = IF where \in {"body.phoneNumber", "query.phoneNumber"}
                                        THEN phone ELSE Undefined,
                        !.recipient = IF where \in {"body.recipient", "query.recipient"}
                                      THEN phone ELSE Undefined,
                        !.message = msg]
        IN  req' = [req EXCEPT ![h] =
                smsWebhook(Arrived("/api/sms-webhook", "POST",
                                   IF inBody THEN NoParams ELSE given,
                                   IF inBody THEN given ELSE NoParams))]
    /\ UNCHANGED <<raw, dialable, taggingKey, crm>>

\* The handler of /send-sms up to its first await.
sendSmsEndpoint(r) ==
    LET phoneNumber == r.body.phoneNumber
        message == r.body.message
    IN  IF ~Truthy(phoneNumber) \/ ~Truthy(message)
        THEN Reply(r, StatusBadRequest,
                   Json(Undefined,
                        Str(<<"Missing required parameters: phoneNumber and message">>),
                        Undefined, Undefined))
        ELSE IF sendSMSThrows(phoneNumber)
        THEN SmsFailure(r, InvalidFormat)
        ELSE sendSMS(r, phoneNumber, message)

SendSmsEndpoint(h) ==
    /\ Free(h)
    /\ \E phone \in RequestPhones, msg \in Messages :
        req' = [req EXCEPT ![h] =
            sendSmsEndpoint(Arrived("/send-sms", "POST", NoParams,
                                    [NoParams EXCEPT !.phoneNumber = phone,
                                                     !.message = msg]))]
    /\ UNCHANGED <<raw, dialable, taggingKey, crm>>

\* sendSMSSettled with one retry of a failed client.messages.create.
sendSMSSettledRetry(r, o) ==
    IF o.kind = "ok"
    THEN Reply(r, StatusOK,
               Json(True, Undefined, Str(<<"SMS sent successfully">>), Str(o.text)))
    ELSE IF Len(r.out) < 2
    THEN Await(r, "awaitMessage", r.out[1])
    ELSE SmsFailure(r, o.text)

\* sendSMS after client.messages.create settled with o: the sid is returned
\* and the endpoint replies with it, or the error is rethrown.
sendSMSSettled(r, o) ==
    IF o.kind = "ok"
    THEN Reply(r, StatusOK,
               Json(True, Undefined, Str(<<"SMS sent successfully">>), Str(o.text)))
    ELSE SmsFailure(r, o.text)

SendSMSResult(h) ==
    /\ req[h].pc = "awaitMessage"
    /\ \E o \in TwilioOutcomes :
        req' = [req EXCEPT ![h] = sendSMSSettled(Settle(req[h], o), o)]
    /\ UNCHANGED <<raw, dialable, taggingKey, crm>>

-----------------------------------------------------------------------------
(* /initiate-call: handleCall, initiateCall, createUltravoxCall *)

\* The decimal digits of a status code, as a template prints it.
StatusDigits(n) ==
    CASE n = StatusOK -> "200"
      [] n = StatusBadRequest -> "400"
      [] n = StatusServerError -> "500"
      [] OTHER -> "0"

\* The message of the error createUltravoxCall throws on a response that
\* is not ok.
UltravoxApiError(o) ==
    <<"Ultravox API error: ", StatusDigits(o.status), " ", o.statusText, " - ">> \o o.text

\* The reply of handleCall's catch.
CallFailure(r, message) ==
    Reply(r, StatusServerError,
          Json(Undefined, Str(<<"Failed to initiate call">>), Str(message), Undefined))

\* handleCall without the validation of phoneNumber.
handleCallNoValidation(r) ==
    LET clientName == Or(r.query.clientName, r.body.clientName)
        phoneNumber == Or(r.query.phoneNumber, r.body.phoneNumber)
        userType == Or(Or(r.query.userType, r.body.userType), Str(<<"non-VIP">>))
    IN  IF ~Truthy(clientName)
        THEN Reply(r, StatusBadRequest,
                   Json(Undefined,
                        Str(<<"Missing required parameters: clientName and phoneNumber">>),
                        Undefined, Undefined))
        ELSE Await([r EXCEPT !.clientName = clientName,
                             !.phoneNumber = phoneNumber,
                             !.userType = userType],
                   "awaitSession",
                   External("ultravox", Undefined, clientName, phoneNumber,
                            Undefined, userType))

\* handleCall up to the first await: the parameters are validated, then
\* initiateCall calls createUltravoxCall, which posts the session request.
handleCall(r) ==
    LET clientName == Or(r.query.clientName, r.body.clientName)
        phoneNumber == Or(r.query.phoneNumber, r.body.phoneNumber)
        userType == Or(Or(r.query.userType, r.body.userType), Str(<<"non-VIP">>))
        formattedNumber == formatPhoneNumber(phoneNumber)
    IN  IF ~Truthy(clientName) \/ ~Truthy(phoneNumber)
        THEN Reply(r, StatusBadRequest,
                   Json(Undefined,
                        Str(<<"Missing required parameters: clientName and phoneNumber">>),
                        Undefined, Undefined))
        ELSE IF ~Truthy(formattedNumber)
        THEN Reply(r, StatusBadRequest,
                   Json(Undefined, Str(<<"Invalid phone number format.">>),
                        Undefined, Undefined))
        ELSE Await([r EXCEPT !.clientName = clientName,
                             !.phoneNumber = formattedNumber,
                             !.userType = userType],
                   "awaitSession",
                   External("ultravox", Undefined, clientName, formattedNumber,
                            Undefined, userType))

HandleCall(h) ==
    /\ Free(h)
    /\ \E method \in {"GET", "POST"}, name \in ClientNames,
          phone \in RequestPhones \cup {Str(<<>>)}, type \in UserTypes :
        LET given == [NoParams EXCEPT !.clientName = name, !.phoneNumber = phone,
                                      !.userType = type]
        IN  req' = [req EXCEPT ![h] =
                handleCall(Arrived("/initiate-call", method,
                                   IF method = "GET" THEN given ELSE NoParams,
                                   IF method = "GET" THEN NoParams ELSE given))]
    /\ UNCHANGED <<raw, dialable, taggingKey, crm>>

\* createUltravoxCallSettled without the test of response.ok.
createUltravoxCallSettledNoOkTest(r, o) ==
    LET joinUrl == IF o.kind = "ok" /\ o.text # <<>> THEN Str(o.text) ELSE Undefined
    IN  CASE o.kind = "reject" -> CallFailure(r, o.text)
          [] OTHER ->
                Await(r, "awaitDial",
                      External("twilioCall", r.phoneNumber,
                               Str(EncodeURIComponent(r.clientName)),
                               Str(EncodeURIComponent(r.phoneNumber)),
                               Undefined, Str(ToString(joinUrl))))

\* createUltravoxCallSettled with the status callback URL built without
\* encodeURIComponent.
createUltravoxCallSettledNoEncoding(r, o) ==
    LET joinUrl == IF o.text = <<>> THEN Undefined ELSE Str(o.text)
    IN  CASE o.kind = "status" -> CallFailure(r, UltravoxApiError(o))
          [] o.kind = "reject" -> CallFailure(r, o.text)
          [] OTHER ->
                Await(r, "awaitDial",
                      External("twilioCall", r.phoneNumber,
                               Str(ToString(r.clientName)),
                               Str(ToString(r.phoneNumber)),
                               Undefined, Str(ToString(joinUrl))))

\* The session request settled with o.  A response that is not ok, or a
\* rejected fetch, is thrown up to handleCall's catch; otherwise
\* initiateCall takes joinUrl from the data and dials, with the status
\* callback URL carrying its clientName and phoneNumber arguments.
createUltravoxCallSettled(r, o) ==
    LET joinUrl == IF o.text = <<>> THEN Undefined ELSE Str(o.text)
    IN  CASE o.kind = "status" -> CallFailure(r, UltravoxApiError(o))
          [] o.kind = "reject" -> CallFailure(r, o.text)
          [] OTHER ->
                Await(r, "awaitDial",
                      External("twilioCall", r.phoneNumber,
                               Str(EncodeURIComponent(r.clientName)),
                               Str(EncodeURIComponent(r.phoneNumber)),
                               Undefined, Str(ToString(joinUrl))))

CreateUltravoxCallResult(h) ==
    /\ req[h].pc = "awaitSession"
    /\ \E o \in FetchOutcomes :
        req' = [req EXCEPT ![h] = createUltravoxCallSettled(Settle(req[h], o), o)]
    /\ UNCHANGED <<raw, dialable, taggingKey, crm>>

\* client.calls.create settled with o: the sid is returned and handleCall
\* replies with it, or the error is thrown up to handleCall's catch.
initiateCallSettled(r, o) ==
    IF o.kind = "ok"
    THEN Reply(r, StatusOK,
               Json(True, Undefined, Str(<<"Call initiated successfully">>), Str(o.text)))
    ELSE CallFailure(r, o.text)

InitiateCallResult(h) ==
    /\ req[h].pc = "awaitDial"
    /\ \E o \in TwilioOutcomes :
        req' = [req EXCEPT ![h] = initiateCallSettled(Settle(req[h], o), o)]
    /\ UNCHANGED <<raw, dialable, taggingKey, crm>>

-----------------------------------------------------------------------------
(* /call-status *)

TagServiceBusy == <<"events", " ", "u2192", " ", "ve0525flash-", "call-busy">>

TagServiceNoAnswer == <<"events", " ", "u2192", " ", "ve0525flash-", "call-no-answer">>

\* TagRequest with the destination number preferred to the query's.
TagRequestToFirst(clientName, phoneNumber, to, tagText) ==
    LET tag == EncodeURIComponent(Str(tagText))
        formattedPhone == formatPhoneNumberForTagging(Or(to, phoneNumber))
    IN  External("tagService", Undefined,
                 Str(EncodeURIComponent(clientName)),
                 Str(ToString(formattedPhone)),
                 Str(tag), Undefined)

\* The request to the tagging service that the busy and no-answer cases
\* build: tagUrl with its three query parameters.
TagRequest(clientName, phoneNumber, to, tagText) ==
    LET tag == EncodeURIComponent(Str(tagText))
        formattedPhone == formatPhoneNumberForTagging(Or(phoneNumber, to))
    IN  External("tagService", Undefined,
                 Str(EncodeURIComponent(clientName)),
                 Str(ToString(formattedPhone)),
                 Str(tag), Undefined)

\* callStatusHandler with the break of the ringing case missing, so that
\* ringing falls through to the busy case.
callStatusHandlerFallThrough(r) ==
    LET callStatus == r.body.CallStatus
        to == r.body.To
        clientName == r.query.clientName
        phoneNumber == r.query.phoneNumber
    IN  CASE callStatus \in {Str(<<"busy">>), Str(<<"ringing">>)} ->
                Await(r, "awaitTag",
                      TagRequest(clientName, phoneNumber, to, TagServiceBusy))
          [] callStatus = Str(<<"no-answer">>) ->
                Await(r, "awaitTag",
                      TagRequest(clientName, phoneNumber, to, TagServiceNoAnswer))
          [] OTHER -> Reply(r, StatusOK, NoBody)

\* The handler up to its first await: the busy and no-answer cases fetch
\* the tagging URL; every other value of CallStatus falls through the
\* switch to res.sendStatus(200).
callStatusHandler(r) ==
    LET callStatus == r.body.CallStatus
        to == r.body.To
        clientName == r.query.clientName
        phoneNumber == r.query.phoneNumber
    IN  CASE callStatus = Str(<<"busy">>) ->
                Await(r, "awaitTag",
                      TagRequest(clientName, phoneNumber, to, TagServiceBusy))
          [] callStatus = Str(<<"no-answer">>) ->
                Await(r, "awaitTag",
                      TagRequest(clientName, phoneNumber, to, TagServiceNoAnswer))
          [] OTHER -> Reply(r, StatusOK, NoBody)

\* CallStatus with a process-wide record of the events being handled: an
\* event that another handler already holds is acknowledged without tagging.
CallStatusDeduplicated(h) ==
    /\ Free(h)
    /\ \E status \in CallStatuses, name \in ClientNames,
          phone \in CallbackPhones, toNumber \in ToNumbers :
        LET r == Arrived("/call-status", "POST",
                         [NoParams EXCEPT !.clientName = name, !.phoneNumber = phone],
                         [NoParams EXCEPT !.CallStatus = status, !.To = toNumber])
            seen == \E g \in Slots \ {h} :
                        /\ req[g].ep = "/call-status"
                        /\ req[g].query = r.query
                        /\ req[g].body = r.body
        IN  req' = [req EXCEPT ![h] =
                IF seen THEN Reply(r, StatusOK, NoBody) ELSE callStatusHandler(r)]
    /\ UNCHANGED <<raw, dialable, taggingKey, crm>>

CallStatus(h) ==
    /\ Free(h)
    /\ \E status \in CallStatuses, name \in ClientNames,
          phone \in CallbackPhones, toNumber \in ToNumbers :
        req' = [req EXCEPT ![h] =
            callStatusHandler(
                Arrived("/call-status", "POST",
                        [NoParams EXCEPT !.clientName = name, !.phoneNumber = phone],
                        [NoParams EXCEPT !.CallStatus = status, !.To = toNumber]))]
    /\ UNCHANGED <<raw, dialable, taggingKey, crm>>

\* callStatusTagSettled without the try/catch around the tagging fetch.
callStatusTagSettledUncaught(r, o) ==
    IF o.kind = "ok" THEN Reply(r, StatusOK, NoBody)
    ELSE Reply(r, StatusServerError, NoBody)

\* The tagging fetch settled with o: a response that is not ok and a
\* rejected fetch both end in the case's catch, then res.sendStatus(200).
callStatusTagSettled(r, o) == Reply(r, StatusOK, NoBody)

CallStatusTagResult(h) ==
    /\ req[h].pc = "awaitTag"
    /\ \E o \in FetchOutcomes :
        req' = [req EXCEPT ![h] = callStatusTagSettled(Settle(req[h], o), o)]
    /\ UNCHANGED <<raw, dialable, taggingKey, crm>>

\* A handler that has replied returns; its slot takes the next request.
Finish(h) ==
    /\ req[h].pc = "done"
    /\ req' = [req EXCEPT ![h] = IdleRequest]
    /\ UNCHANGED <<raw, dialable, taggingKey, crm>>

-----------------------------------------------------------------------------
(* The CRM functions findOrCreateContact and addTagToContact.  No handler  *)
(* of index.js calls them; crm holds one call of either: its arguments,    *)
(* the CRM requests it has issued (out), their results (got) and what it   *)
(* returned or threw.                                                      *)

\* A JavaScript array of contacts.
Array(s) == [t |-> "array", s |-> s]

\* A request to the CRM: op is search (GET /contacts/search), create
\* (POST /contacts) or tag (POST /contacts/<id>/tags).
CrmRequest(op, phone, locationId, contactId, tag) ==
    [op |-> op, phone |-> phone, locationId |-> locationId,
     contactId |-> contactId, tag |-> tag]

\* The result of a CRM fetch: kind is ok, status (response not ok), reject
\* (fetch rejected) or badjson (response.json() rejected); contacts and
\* contact are the fields of the parsed body.
CrmOutcome(kind, statusText, contacts, contact) ==
    [kind |-> kind, statusText |-> statusText, contacts |-> contacts, contact |-> contact]

IdleCrm ==
    [pc |-> "idle", fn |-> "none", phoneNumber |-> Unset, contactId |-> Unset,
     tag |-> Unset, out |-> <<>>, got |-> <<>>, result |-> Unset, error |-> Unset]

\* return v / throw new Error(message)
Return(c, v) == [c EXCEPT !.pc = "returned", !.result = v]

Throw(c, message) == [c EXCEPT !.pc = "threw", !.error = Str(message)]

CrmAwait(c, pc, e) == [c EXCEPT !.pc = pc, !.out = Append(c.out, e)]

CrmSettle(c, o) == [c EXCEPT !.got = Append(c.got, o)]

ContactPhones ==
    {Str(TenDigitNumber), Str(<<"1">> \o TenDigitNumber), Str(Rep("5", 7)),
     Str(<<"6", "3", "9", "1", "7">> \o Rep("0", 7)), Str(<<>>)}

ContactIds == {Str(<<"c1">>), Str(<<"c2">>), Undefined}

Tags == {Str(TagServiceBusy), Str(TagServiceNoAnswer)}

SearchOutcomes ==
    { CrmOutcome("ok", "OK", Undefined, Undefined),
      CrmOutcome("ok", "OK", Array(<<>>), Undefined),
      CrmOutcome("ok", "OK", Array(<<Str(<<"c1">>)>>), Undefined),
      CrmOutcome("ok", "OK", Array(<<Str(<<"c2">>), Str(<<"c1">>)>>), Undefined),
      CrmOutcome("status", "Unauthorized", Undefined, Undefined),
      CrmOutcome("reject", "fetch failed", Undefined, Undefined),
      CrmOutcome("badjson", "Unexpected token", Undefined, Undefined) }

CreateOutcomes ==
    { CrmOutcome("ok", "OK", Undefined, Str(<<"c1">>)),
      CrmOutcome("ok", "OK", Undefined, Undefined),
      CrmOutcome("status", "Unprocessable Entity", Undefined, Undefined),
      CrmOutcome("reject", "fetch failed", Undefined, Undefined),
      CrmOutcome("badjson", "Unexpected token", Undefined, Undefined) }

TagOutcomes ==
    { CrmOutcome("ok", "OK", Undefined, Str(<<"c1">>)),
      CrmOutcome("status", "Not Found", Undefined, Undefined),
      CrmOutcome("reject", "fetch failed", Undefined, Undefined) }

\* findOrCreateContact up to its first await: the search request.
FindOrCreateContact ==
    /\ crm.pc = "idle"
    /\ \E phoneNumber \in ContactPhones :
        crm' = CrmAwait([IdleCrm EXCEPT !.fn = "findOrCreateContact",
                                        !.phoneNumber = phoneNumber],
                        "awaitSearch",
                        CrmRequest("search", phoneNumber, Undefined, Undefined, Undefined))
    /\ UNCHANGED <<raw, dialable, taggingKey, req>>

\* findOrCreateContactSearched without the test of searchResponse.ok.
findOrCreateContactSearchedNoOkTest(c, o) ==
    IF o.kind \in {"reject", "badjson"} THEN Throw(c, <<o.statusText>>)
    ELSE IF o.contacts.t = "array" /\ Len(o.contacts.s) > 0
    THEN Return(c, o.contacts.s[1])
    ELSE CrmAwait(c, "awaitCreate",
                  CrmRequest("create", c.phoneNumber, Str(<<"GHL_LOCATION_ID">>),
                             Undefined, Undefined))

\* The search settled with o: an error is thrown, the first contact found
\* is returned, or the contact is created.
findOrCreateContactSearched(c, o) ==
    IF o.kind = "status"
    THEN Throw(c, <<"Failed to search contact: ", o.statusText>>)
    ELSE IF o.kind \in {"reject", "badjson"} THEN Throw(c, <<o.statusText>>)
    ELSE IF o.contacts.t = "array" /\ Len(o.contacts.s) > 0
    THEN Return(c, o.contacts.s[1])
    ELSE CrmAwait(c, "awaitCreate",
                  CrmRequest("create", c.phoneNumber, Str(<<"GHL_LOCATION_ID">>),
                             Undefined, Undefined))

FindOrCreateContactSearchResult ==
    /\ crm.pc = "awaitSearch"
    /\ \E o \in SearchOutcomes :
        crm' = findOrCreateContactSearched(CrmSettle(crm, o), o)
    /\ UNCHANGED <<raw, dialable, taggingKey, req>>

\* The create settled with o: an error is thrown or newContact.contact is
\* returned.
findOrCreateContactCreated(c, o) ==
    IF o.kind = "status"
    THEN Throw(c, <<"Failed to create contact: ", o.statusText>>)
    ELSE IF o.kind \in {"reject", "badjson"} THEN Throw(c, <<o.statusText>>)
    ELSE Return(c, o.contact)

FindOrCreateContactCreateResult ==
    /\ crm.pc = "awaitCreate"
    /\ \E o \in CreateOutcomes :
        crm' = findOrCreateContactCreated(CrmSettle(crm, o), o)
    /\ UNCHANGED <<raw, dialable, taggingKey, req>>

\* addTagToContact up to its await: the tag request.
AddTagToContact ==
    /\ crm.pc = "idle"
    /\ \E contactId \in ContactIds, tag \in Tags :
        crm' = CrmAwait([IdleCrm EXCEPT !.fn = "addTagToContact",
                                        !.contactId = contactId, !.tag = tag],
                        "awaitTag",
                        CrmRequest("tag", Undefined, Undefined, contactId, tag))
    /\ UNCHANGED <<raw, dialable, taggingKey, req>>

\* The tag request settled with o.
addTagToContactSettled(c, o) ==
    IF o.kind = "status" THEN Throw(c, <<"Failed to add tag: ", o.statusText>>)
    ELSE IF o.kind \in {"reject", "badjson"} THEN Throw(c, <<o.statusText>>)
    ELSE Return(c, o.contact)

AddTagToContactResult ==
    /\ crm.pc = "awaitTag"
    /\ \E o \in TagOutcomes :
        crm' = addTagToContactSettled(CrmSettle(crm, o), o)
    /\ UNCHANGED <<raw, dialable, taggingKey, req>>

\* The call has returned or thrown to its caller.
CrmCallEnds ==
    /\ crm.pc \in {"returned", "threw"}
    /\ crm' = IdleCrm
    /\ UNCHANGED <<raw, dialable, taggingKey, req>>

InitContact ==
    /\ raw = Undefined
    /\ dialable = Unset
    /\ taggingKey = Unset
    /\ InitServer
    /\ crm = IdleCrm

NextContact ==
    \/ FindOrCreateContact
    \/ FindOrCreateContactSearchResult
    \/ FindOrCreateContactCreateResult
    \/ AddTagToContact
    \/ AddTagToContactResult
    \/ CrmCallEnds

SpecContact == InitContact /\ [][NextContact]_vars

-----------------------------------------------------------------------------
(* Specification of the server: requests arrive in any order and any       *)
(* number, and the handlers of the slots interleave.                       *)

Init ==
    /\ raw = Undefined
    /\ dialable = Unset
    /\ taggingKey = Unset
    /\ InitServer
    /\ crm = IdleCrm

Next ==
    \E h \in Slots :
        \/ HandleCall(h)
        \/ CreateUltravoxCallResult(h)
        \/ InitiateCallResult(h)
        \/ CallStatus(h)
        \/ CallStatusTagResult(h)
        \/ SmsWebhook(h)
        \/ SendSmsEndpoint(h)
        \/ SendSMSResult(h)
        \/ Finish(h)

Spec == Init /\ [][Next]_vars

-----------------------------------------------------------------------------
(* Specification of the normalisers alone: one input, both functions.      *)

InitNormalize ==
    /\ raw \in RawInputs
    /\ dialable = Unset
    /\ taggingKey = Unset
    /\ InitServer
    /\ crm = IdleCrm

CallFormatPhoneNumber ==
    /\ dialable = Unset
    /\ dialable' = formatPhoneNumber(raw)
    /\ UNCHANGED <<raw, taggingKey, req, crm>>

CallFormatPhoneNumberForTagging ==
    /\ taggingKey = Unset
    /\ taggingKey' = formatPhoneNumberForTagging(raw)
    /\ UNCHANGED <<raw, dialable, req, crm>>

NextNormalize == CallFormatPhoneNumber \/ CallFormatPhoneNumberForTagging

SpecNormalize == InitNormalize /\ [][NextNormalize]_vars

-----------------------------------------------------------------------------
(* Claims about the normalisers, checked under SpecNormalize.              *)

Normalized == dialable # Unset /\ taggingKey # Unset

TenDigits(v) == IsDigitString(v) /\ Len(v.s) = 10

\* C8 as stated: for every digit string x of length 10, those starting with
\* 63 included, formatPhoneNumber(x) is "+1" followed by x.
C8_AsStated ==
    (dialable # Unset /\ TenDigits(raw))
        => dialable = Str(<<"+", "1">> \o raw.s)

\* C8 amended: for every digit string x of length 10 that does not start
\* with 63, formatPhoneNumber(x) is "+1" followed by x; for a 10-digit x
\* that starts with 63 it is "+" followed by x.
C8_TenDigits ==
    (dialable # Unset /\ TenDigits(raw))
        => dialable = IF StartsWith(raw.s, <<"6", "3">>)
                      THEN Str(<<"+">> \o raw.s)
                      ELSE Str(<<"+", "1">> \o raw.s)

C8_Witness ==
    /\ TenDigits(raw)
    /\ ~StartsWith(raw.s, <<"6", "3">>)
    /\ dialable = Str(<<"+", "1">> \o raw.s)

\* C9: for every digit string x that starts with 63, whatever its length,
\* formatPhoneNumber(x) is "+" followed by x.
C9_PrefixSixtyThree ==
    (dialable # Unset /\ IsDigitString(raw) /\ StartsWith(raw.s, <<"6", "3">>))
        => dialable = Str(<<"+">> \o raw.s)

C9_Witness ==
    /\ TenDigits(raw)
    /\ StartsWith(raw.s, <<"6", "3">>)
    /\ dialable = Str(<<"+">> \o raw.s)

\* The three patterns of C10 on a stripped digit sequence.
MatchesPattern(d) ==
    \/ StartsWith(d, <<"6", "3">>)
    \/ Len(d) = 10
    \/ Len(d) >= 11 /\ StartsWith(d, <<"1">>)

\* C10 as stated: for any input string whose stripped digits match none of
\* the three patterns, dialable is null and taggingKey is the string of the
\* stripped digits; and dialable is non-null only when a pattern matches.
C10_AsStated ==
    (Normalized /\ raw.t = "string")
        => /\ ~MatchesPattern(StrippedDigits(raw))
                => dialable = Null /\ taggingKey = Str(StrippedDigits(raw))
           /\ dialable # Null => MatchesPattern(StrippedDigits(raw))

-----------------------------------------------------------------------------
(* Claims about the handlers, checked under Spec.                          *)

Services == {"ultravox", "twilioCall", "twilioMessage", "tagService"}

\* The requests to the service svc among the external requests out.
Issued(out, svc) == SelectSeq(out, LAMBDA e : e.svc = svc)

\* The text s contains the text sub.
Contains(s, sub) ==
    \E i \in 1..(Len(s) + 1) :
        i + Len(sub) - 1 <= Len(s) /\ SubSeq(s, i, i + Len(sub) - 1) = sub

\* decodeURIComponent, as the receiver of a query parameter applies it.
DecodeToken(c) ==
    CASE c = "%20" -> " "
      [] c = "%2B" -> "+"
      [] c = "%26" -> "&"
      [] c = "%25" -> "%"
      [] c = "%E2%86%92" -> "u2192"
      [] OTHER -> c

DecodeURIComponent(s) == [i \in 1..Len(s) |-> DecodeToken(s[i])]

InCallStatus(r) == r.ep = "/call-status" /\ r.pc # "idle"

\* C1: a /call-status handler never replies anything but 200: it has either
\* not replied yet (it awaits the tagging request) or replied 200, whatever
\* CallStatus, the parameters present, and the result of the tagging request.
C1_AlwaysOK ==
    \A h \in Slots :
        InCallStatus(req[h]) =>
            \/ req[h].pc = "awaitTag" /\ req[h].status = StatusNone
            \/ req[h].pc = "done" /\ req[h].status = StatusOK

C1_Witness ==
    \E h \in Slots :
        /\ InCallStatus(req[h])
        /\ req[h].body.CallStatus = Str(<<"busy">>)
        /\ Len(req[h].got) = 1
        /\ req[h].got[1].kind = "reject"
        /\ req[h].pc = "done"
        /\ req[h].status = StatusOK

\* The tagging request e of the event r is the one C2 describes for the
\* tag text word.
TagsAsClaimed(r, e, word) ==
    /\ e.svc = "tagService"
    /\ Truthy(r.query.phoneNumber)
            => e.phoneNumber = Str(StripNonDigits(r.query.phoneNumber.s))
    /\ (~Truthy(r.query.phoneNumber) /\ Truthy(r.body.To))
            => e.phoneNumber = Str(StripNonDigits(r.body.To.s))
    /\ r.query.clientName.t = "string"
            => DecodeURIComponent(e.clientName.s) = r.query.clientName.s
    /\ Contains(DecodeURIComponent(e.tag.s), <<word>>)

\* C2: a busy (no-answer) event issues one tagging request whose phoneNumber
\* is the digits of the query's phoneNumber when that is given, of To
\* otherwise, whose clientName decodes to the query's clientName, and whose
\* tag contains call-busy (call-no-answer).
C2_TagAction ==
    \A h \in Slots :
        /\ (InCallStatus(req[h]) /\ req[h].body.CallStatus = Str(<<"busy">>))
                => /\ Len(req[h].out) = 1
                   /\ TagsAsClaimed(req[h], req[h].out[1], "call-busy")
        /\ (InCallStatus(req[h]) /\ req[h].body.CallStatus = Str(<<"no-answer">>))
                => /\ Len(req[h].out) = 1
                   /\ TagsAsClaimed(req[h], req[h].out[1], "call-no-answer")

C2_Witness ==
    \E h \in Slots :
        /\ InCallStatus(req[h])
        /\ req[h].body.CallStatus = Str(<<"busy">>)
        /\ req[h].query.phoneNumber = Str(Decorate(TenDigitNumber, "dash"))
        /\ Truthy(req[h].body.To)
        /\ Truthy(req[h].query.clientName)
        /\ req[h].out[1].phoneNumber = Str(TenDigitNumber)

QuietStatuses ==
    {Str(<<c>>) : c \in {"initiated", "ringing", "answered", "completed", "failed",
                         "canceled"}}

\* C3: an event whose status is initiated, ringing, answered, completed,
\* failed or canceled is answered with no external request issued; and a
\* tagging request is only ever issued by a busy or no-answer event.
C3_NoSideEffect ==
    \A h \in Slots :
        /\ (InCallStatus(req[h]) /\ req[h].body.CallStatus \in QuietStatuses)
                => req[h].out = <<>> /\ req[h].pc = "done"
        /\ Issued(req[h].out, "tagService") # <<>>
                => /\ req[h].ep = "/call-status"
                   /\ req[h].body.CallStatus \in {Str(<<"busy">>), Str(<<"no-answer">>)}

C3_Witness ==
    \E h \in Slots :
        /\ InCallStatus(req[h])
        /\ req[h].body.CallStatus = Str(<<"ringing">>)
        /\ req[h].pc = "done"
        /\ req[h].out = <<>>

\* C4: a dial is only issued by /initiate-call after the session request of
\* the same handler settled ok; when the session request settles with a
\* status that is not ok, or is rejected, the handler replies 500 with the
\* error text in the body's message and has issued no dial.
C4_DialAfterSession ==
    \A h \in Slots :
        LET r == req[h] IN
        /\ Issued(r.out, "twilioCall") # <<>>
                => /\ r.ep = "/initiate-call"
                   /\ r.out[1].svc = "ultravox"
                   /\ r.out[2].svc = "twilioCall"
                   /\ r.got # <<>>
                   /\ r.got[1].kind = "ok"
        /\ (r.ep = "/initiate-call" /\ r.got # <<>> /\ r.got[1].kind # "ok")
                => /\ r.pc = "done"
                   /\ r.status = StatusServerError
                   /\ Issued(r.out, "twilioCall") = <<>>
                   /\ r.resBody.message.t = "string"
                   /\ Contains(r.resBody.message.s, r.got[1].text)

C4_Witness ==
    \E h \in Slots :
        /\ req[h].ep = "/initiate-call"
        /\ req[h].got # <<>>
        /\ req[h].got[1].kind = "status"
        /\ req[h].got[1].status = StatusServerError
        /\ req[h].status = StatusServerError
        /\ Len(req[h].out) = 1

\* C5: a /initiate-call request (GET or POST) with phoneNumber in neither
\* the query nor the body is answered 400 with an error field, and issues
\* no external request.
C5_MissingPhone ==
    \A h \in Slots :
        ( /\ req[h].ep = "/initiate-call"
          /\ req[h].pc # "idle"
          /\ req[h].query.phoneNumber = Undefined
          /\ req[h].body.phoneNumber = Undefined )
            => /\ req[h].pc = "done"
               /\ req[h].status = StatusBadRequest
               /\ req[h].resBody.error.t = "string"
               /\ req[h].out = <<>>

C5_Witness ==
    \E h \in Slots :
        /\ req[h].ep = "/initiate-call"
        /\ req[h].method = "POST"
        /\ Truthy(req[h].body.clientName)
        /\ req[h].body.phoneNumber = Undefined
        /\ req[h].query.phoneNumber = Undefined
        /\ req[h].status = StatusBadRequest

\* The phone number of a request, as its endpoint reads it.
RequestPhone(r) ==
    CASE r.ep = "/initiate-call" -> Or(r.query.phoneNumber, r.body.phoneNumber)
      [] r.ep = "/api/sms-webhook" ->
            Or(Or(Or(r.body.phoneNumber, r.body.recipient), r.query.recipient),
               r.query.phoneNumber)
      [] OTHER -> r.body.phoneNumber

\* C6 as stated: on /initiate-call, /api/sms-webhook and /send-sms a request
\* whose phone number is given but does not format is answered 400, and
\* nothing is sent to the telephony provider.
C6_AsStated ==
    \A h \in Slots :
        ( /\ req[h].ep \in {"/initiate-call", "/api/sms-webhook", "/send-sms"}
          /\ req[h].pc = "done"
          /\ Truthy(RequestPhone(req[h]))
          /\ formatPhoneNumber(RequestPhone(req[h])) = Null )
            => /\ req[h].status = StatusBadRequest
               /\ Issued(req[h].out, "twilioCall") = <<>>
               /\ Issued(req[h].out, "twilioMessage") = <<>>

\* C7: a handler issues at most one request to each external service, and
\* none after one of its requests failed.
C7_AttemptOnce ==
    \A h \in Slots :
        /\ \A svc \in Services : Len(Issued(req[h].out, svc)) <= 1
        /\ \A i \in 1..Len(req[h].got) :
                req[h].got[i].kind # "ok" => Len(req[h].out) = i

C7_Witness ==
    \E h \in Slots :
        /\ req[h].ep = "/send-sms"
        /\ req[h].pc = "done"
        /\ Len(req[h].got) = 1
        /\ req[h].got[1].kind = "reject"
        /\ Len(Issued(req[h].out, "twilioMessage")) = 1

\* The value a query-string parser gives a parameter written as s: a
\* literal + is a space, then the escapes are decoded.
QueryValue(s) ==
    DecodeURIComponent([i \in 1..Len(s) |-> IF s[i] = "+" THEN " " ELSE s[i]])

\* The dials a handler has issued.
Dials(r) == Issued(r.out, "twilioCall")

\* C11 as stated: the status callback URL of a dial carries the request's
\* clientName and the request's phoneNumber exactly as received.
C11_AsStated ==
    \A h \in Slots :
        Dials(req[h]) # <<>>
            => /\ QueryValue(Dials(req[h])[1].clientName.s)
                    = Or(req[h].query.clientName, req[h].body.clientName).s
               /\ QueryValue(Dials(req[h])[1].phoneNumber.s) = RequestPhone(req[h]).s

\* C11 amended: the status callback URL of a dial carries the request's
\* clientName as received and the formatted (dialable) form of the
\* request's phoneNumber, both URL-encoded, so that the phoneNumber echoed
\* to /call-status is the number dialled, not the raw phone.
C11_Callback ==
    \A h \in Slots :
        Dials(req[h]) # <<>>
            => /\ QueryValue(Dials(req[h])[1].clientName.s)
                    = Or(req[h].query.clientName, req[h].body.clientName).s
               /\ Str(QueryValue(Dials(req[h])[1].phoneNumber.s))
                    = formatPhoneNumber(RequestPhone(req[h]))
               /\ Str(QueryValue(Dials(req[h])[1].phoneNumber.s)) = Dials(req[h])[1].to

C11_Witness ==
    \E h \in Slots :
        /\ Dials(req[h]) # <<>>
        /\ RequestPhone(req[h]) = ValidPhone
        /\ QueryValue(Dials(req[h])[1].phoneNumber.s) = <<"+", "1">> \o TenDigitNumber
        /\ QueryValue(Dials(req[h])[1].clientName.s) = <<"A", " ", "B">>

\* A "+" followed by digits that begin with 1 or with 63.
IsDialable(v) ==
    /\ v.t = "string"
    /\ v.s # <<>>
    /\ Head(v.s) = "+"
    /\ StripNonDigits(Tail(v.s)) = Tail(v.s)
    /\ StartsWith(Tail(v.s), <<"1">>) \/ StartsWith(Tail(v.s), <<"6", "3">>)

\* C14: every number handed to the telephony provider, as the target of a
\* dial or the recipient of a message, is the formatted form of the
\* request's phone number, a "+" followed by digits beginning with 1 or 63;
\* and a request whose phone number formats to null issues no session
\* request, no dial and no message.
C14_DialableOnly ==
    \A h \in Slots :
        /\ \A i \in 1..Len(req[h].out) :
                req[h].out[i].svc \in {"twilioCall", "twilioMessage"}
                    => /\ req[h].out[i].to = formatPhoneNumber(RequestPhone(req[h]))
                       /\ IsDialable(req[h].out[i].to)
        /\ ( /\ req[h].ep \in {"/initiate-call", "/api/sms-webhook", "/send-sms"}
             /\ formatPhoneNumber(RequestPhone(req[h])) = Null )
                => /\ Issued(req[h].out, "ultravox") = <<>>
                   /\ Issued(req[h].out, "twilioCall") = <<>>
                   /\ Issued(req[h].out, "twilioMessage") = <<>>

C14_Witness ==
    \E h, g \in Slots :
        /\ req[h].ep = "/send-sms"
        /\ req[h].body.phoneNumber = PhilippinesPhone
        /\ Len(req[h].out) = 1
        /\ req[h].out[1].to = Str(<<"+", "6", "3", "9", "1", "7">> \o Rep("0", 7))
        /\ req[g].ep = "/initiate-call"
        /\ RequestPhone(req[g]) = ValidPhone
        /\ Dials(req[g]) # <<>>
        /\ Dials(req[g])[1].to = Str(<<"+", "1">> \o TenDigitNumber)

\* The handlers g and h hold deliveries of the same status event.
SameEvent(g, h) ==
    /\ InCallStatus(req[g])
    /\ InCallStatus(req[h])
    /\ req[g].query = req[h].query
    /\ req[g].body = req[h].body

\* The number of tagging requests the event of r calls for.
TagsDue(r) ==
    IF r.body.CallStatus \in {Str(<<"busy">>), Str(<<"no-answer">>)} THEN 1 ELSE 0

\* What a /call-status handler has issued and replied is a function of its
\* own event: as many tagging requests as the event calls for, the same
\* requests and the same reply as any other delivery of the same event.
EventDecides ==
    \A h \in Slots :
        InCallStatus(req[h]) =>
            /\ Len(req[h].out) = TagsDue(req[h])
            /\ Issued(req[h].out, "tagService") = req[h].out
            /\ \A g \in Slots :
                    SameEvent(g, h) =>
                        /\ req[g].out = req[h].out
                        /\ (req[g].pc = "done" /\ req[h].pc = "done")
                                => /\ req[g].status = req[h].status
                                   /\ req[g].resBody = req[h].resBody

\* A step of one handler leaves every other handler as it was.
NoInterference ==
    \A h \in Slots :
        req'[h] # req[h] => \A g \in Slots \ {h} : req'[g] = req[g]

\* C12: status events are handled independently: whatever arrived before
\* and whatever is handled concurrently, the tagging requests and the reply
\* of an event are decided by the event's own fields, a duplicated busy
\* event is tagged once per delivery, and no handler's step changes another
\* handler.
C12_Stateless == [](EventDecides) /\ [][NoInterference]_vars

C12_Witness ==
    \E g, h \in Slots :
        /\ g # h
        /\ SameEvent(g, h)
        /\ req[g].body.CallStatus = Str(<<"busy">>)
        /\ req[g].pc = "done"
        /\ req[g].got[1].kind = "reject"
        /\ req[h].pc = "awaitTag"
        /\ Len(Issued(req[g].out, "tagService")) = 1
        /\ Len(Issued(req[h].out, "tagService")) = 1

-----------------------------------------------------------------------------
(* Claim about the CRM functions, checked under SpecContact.               *)

\* The search result o holds no contact.
NoContacts(o) == o.contacts.t # "array" \/ o.contacts.s = <<>>

InFindOrCreate == crm.fn = "findOrCreateContact"

\* C13: findOrCreateContact searches first; it sends a create only after
\* the search succeeded with zero contacts; when the search finds a contact
\* it returns the first one and sends no create; when the search or the
\* create comes back with a status that is not ok it throws and sends no
\* further CRM request, create or tag.
C13_FindOrCreate ==
    InFindOrCreate =>
        /\ crm.out[1] = CrmRequest("search", crm.phoneNumber, Undefined, Undefined, Undefined)
        /\ \A i \in 1..Len(crm.out) :
                /\ crm.out[i].op # "tag"
                /\ crm.out[i].op = "search" => i = 1
                /\ crm.out[i].op = "create"
                        => /\ i = 2
                           /\ crm.got[1].kind = "ok"
                           /\ NoContacts(crm.got[1])
                           /\ crm.out[i].phone = crm.phoneNumber
        /\ (crm.got # <<>> /\ crm.got[1].kind = "ok" /\ ~NoContacts(crm.got[1]))
                => /\ crm.pc = "returned"
                   /\ crm.result = crm.got[1].contacts.s[1]
                   /\ Len(crm.out) = 1
        /\ \A i \in 1..Len(crm.got) :
                crm.got[i].kind = "status"
                    => /\ crm.pc = "threw"
                       /\ crm.error.t = "string"
                       /\ Len(crm.out) = i

C13_Witness ==
    /\ InFindOrCreate
    /\ Len(crm.out) = 2
    /\ crm.out[2].op = "create"
    /\ crm.got[1].contacts = Array(<<>>)
    /\ Len(crm.got) = 2
    /\ crm.got[2].kind = "status"
    /\ crm.pc = "threw"

====
